---- MODULE Spec2Model ----
(***************************************************************************)
(* A model of the go-toggl client library (src/main.go).                   *)
(*                                                                         *)
(* Two state machines share this module:                                   *)
(*   SpecEntry   - the local helpers of a TimeEntry value (IsRunning,      *)
(*                 Copy, AddTag, RemoveTag, SetDuration, SetStartTime,     *)
(*                 SetStopTime) over a Go heap of time.Time cells and      *)
(*                 []string backing arrays;                                *)
(*   SpecSession - the Session operations that talk to the Toggl server    *)
(*                 (request, get/post/put/patch/delete, StartTimeEntry,    *)
(*                 StopTimeEntry, UnstopTimeEntry, ContinueTimeEntry, ...) *)
(*                 against a server whose responses are chosen by the      *)
(*                 environment.                                            *)
(***************************************************************************)
EXTENDS Integers, Sequences, FiniteSets, TLC

VARIABLES
    orig,      \* the TimeEntry the caller holds (a Go struct value)
    cpy,       \* the TimeEntry returned by orig.Copy(), once copied
    copied,    \* TRUE once Copy() has been called
    times,     \* Go heap: the time.Time variables pointers point to
    arrays,    \* Go heap: the backing arrays of []string slices
    last,      \* the last helper call: arguments, results, state before
    session,   \* the Session value (APIToken, username, password)
    server,    \* the time entries held by the Toggl server
    nextID,    \* the next id the server assigns
    reqs,      \* the HTTP requests issued by the last Session operation
    res        \* what the last Session operation returned

vars == <<orig, cpy, copied, times, arrays, last, session, server, nextID, reqs, res>>

entryVars == <<orig, cpy, copied, times, arrays, last>>

sessionVars == <<session, server, nextID, reqs, res>>

----------------------------------------------------------------------------
(* Bounds of the model.                                                    *)

MaxSec == 2

MaxDur == 2

MaxTags == 3

(* Half a second, in nanoseconds: the sub-second part of a time.Time.      *)
HalfSecond == 500000000

TagNames == {"a", "b"}

(* A time.Time is its Unix second and the nanosecond within the second.    *)
TimeVals == [sec : 0..MaxSec, nsec : {0, HalfSecond}]

Durations == (0 - 1)..MaxDur

----------------------------------------------------------------------------
(* time.Time arithmetic used by the helpers.                               *)

(* t.Add(time.Duration(d) * time.Second)                                   *)
AddSeconds(t, d) == [sec |-> t.sec + d, nsec |-> t.nsec]

(* t.Unix()                                                                *)
Unix(t) == t.sec

(* int64(a.Sub(b) / time.Second): Go's integer division truncates toward   *)
(* zero, so a negative difference rounds up and a positive one down.       *)
SubSeconds(a, b) ==
    LET ds == a.sec - b.sec
        dn == a.nsec - b.nsec
    IN  IF ds > 0 /\ dn < 0 THEN ds - 1
        ELSE IF ds < 0 /\ dn > 0 THEN ds + 1
        ELSE ds

----------------------------------------------------------------------------
(* Go values.  A pointer is a heap address, 0 is nil.  A slice is the      *)
(* address of its backing array, its length and its capacity.              *)

NilSlice == [arr |-> 0, len |-> 0, cap |-> 0]

(* TimeEntry{}: the zero value of the struct.                              *)
ZeroEntry ==
    [Wid |-> 0, ID |-> 0, Pid |-> <<>>, Tid |-> <<>>, Description |-> "",
     Stop |-> 0, Start |-> 0, Tags |-> NilSlice, Duration |-> 0,
     DurOnly |-> FALSE, Billable |-> FALSE]

(* The elements a slice shows: the first len slots of its backing array.   *)
Elems(arrs, s) == IF s.arr = 0 THEN <<>> ELSE SubSeq(arrs[s.arr], 1, s.len)

(* *p for a *time.Time, as an optional value: <<>> for nil.                *)
Deref(tms, p) == IF p = 0 THEN <<>> ELSE <<tms[p]>>

(* What a caller reads from a TimeEntry: every field, pointers followed.   *)
View(tms, arrs, e) ==
    [Wid |-> e.Wid, ID |-> e.ID, Pid |-> e.Pid, Tid |-> e.Tid,
     Description |-> e.Description,
     Stop |-> Deref(tms, e.Stop), Start |-> Deref(tms, e.Start),
     Tags |-> Elems(arrs, e.Tags), Duration |-> e.Duration,
     DurOnly |-> e.DurOnly, Billable |-> e.Billable]

(* The capacity append gives a slice that has outgrown its array: the Go   *)
(* runtime doubles a small capacity, and starts an empty one at 1.         *)
GrowCap(cap) == IF cap = 0 THEN 1 ELSE 2 * cap

(* append(s, x): in place when the array has room, else into a new array.  *)
AppendSlice(arrs, s, x) ==
    IF s.len < s.cap
    THEN [arrays |-> [arrs EXCEPT ![s.arr][s.len + 1] = x],
          slice  |-> [s EXCEPT !.len = s.len + 1]]
    ELSE LET ncap == GrowCap(s.cap)
             old  == Elems(arrs, s)
             narr == [k \in 1..ncap |->
                        IF k <= s.len THEN old[k]
                        ELSE IF k = s.len + 1 THEN x ELSE ""]
         IN  [arrays |-> Append(arrs, narr),
              slice  |-> [arr |-> Len(arrs) + 1, len |-> s.len + 1, cap |-> ncap]]

----------------------------------------------------------------------------
(* The TimeEntry helpers, as functions of the heap and the entry.          *)

IsRunningLE(e) == e.Duration <= 0

(* func (e *TimeEntry) IsRunning() bool                                    *)
IsRunning(e) == e.Duration < 0

indexOfTagLastMatch(tag, tags) ==
    IF \E i \in 1..Len(tags) : tags[i] = tag
    THEN (CHOOSE i \in 1..Len(tags) :
            tags[i] = tag /\ \A j \in (i + 1)..Len(tags) : tags[j] # tag) - 1
    ELSE 0 - 1

(* func indexOfTag(tag, tags) int: the 0-based index of the first match,   *)
(* -1 when there is none.                                                  *)
indexOfTag(tag, tags) ==
    IF \E i \in 1..Len(tags) : tags[i] = tag
    THEN (CHOOSE i \in 1..Len(tags) :
            tags[i] = tag /\ \A j \in 1..(i - 1) : tags[j] # tag) - 1
    ELSE 0 - 1

(* func (e *TimeEntry) HasTag(tag) bool                                    *)
HasTag(arrs, e, tag) == indexOfTag(tag, Elems(arrs, e.Tags)) # 0 - 1

AddTagAlways(arrs, e, tag) ==
    LET a == AppendSlice(arrs, e.Tags, tag)
    IN  [arrays |-> a.arrays, entry |-> [e EXCEPT !.Tags = a.slice]]

(* func (e *TimeEntry) AddTag(tag)                                         *)
AddTag(arrs, e, tag) ==
    IF ~HasTag(arrs, e, tag)
    THEN LET a == AppendSlice(arrs, e.Tags, tag)
         IN  [arrays |-> a.arrays, entry |-> [e EXCEPT !.Tags = a.slice]]
    ELSE [arrays |-> arrs, entry |-> e]

(* append(s[:i], s[i+1:]...): the elements after slot i move one slot to   *)
(* the left inside the same backing array; the old last slot keeps its     *)
(* value beyond the new length.                                            *)
CutSlice(arrs, s, i) ==
    LET old == arrs[s.arr]
    IN  [arrays |-> [arrs EXCEPT ![s.arr] =
                        [k \in 1..s.cap |->
                            IF k >= i + 1 /\ k <= s.len - 1 THEN old[k + 1]
                            ELSE old[k]]],
         slice  |-> [s EXCEPT !.len = s.len - 1]]

(* func (e *TimeEntry) RemoveTag(tag)                                      *)
RemoveTag(arrs, e, tag) ==
    LET i == indexOfTag(tag, Elems(arrs, e.Tags))
    IN  IF i # 0 - 1
        THEN LET c == CutSlice(arrs, e.Tags, i)
             IN  [arrays |-> c.arrays, entry |-> [e EXCEPT !.Tags = c.slice]]
        ELSE [arrays |-> arrs, entry |-> e]

(* func (e *TimeEntry) Copy() TimeEntry.  make+copy give the tags a fresh  *)
(* backing array of capacity len(e.Tags).  The address-of applied to the    *)
(* indirection of e.Start (lines 660, 663) is the address of the variable  *)
(* e.Start points to, that is e.Start itself: no time.Time is copied, and  *)
(* the new entry's Start and Stop point to the same variables as the       *)
(* receiver's.                                                             *)
Copy(tms, arrs, e) ==
    LET narr == Elems(arrs, e.Tags)
    IN  [times  |-> tms,
         arrays |-> Append(arrs, narr),
         entry  |-> [e EXCEPT
                        !.Tags  = [arr |-> Len(arrs) + 1, len |-> e.Tags.len,
                                   cap |-> e.Tags.len],
                        !.Start = e.Start,
                        !.Stop  = e.Stop]]

MustBeStopped == "TimeEntry must be stopped"

(* func (e *TimeEntry) SetDuration(duration int64) error.  e.Duration is   *)
(* assigned before e.Start is dereferenced, so a nil Start panics with the *)
(* duration already changed.                                               *)
SetDuration(tms, e, d) ==
    IF IsRunning(e)
    THEN [times |-> tms, entry |-> e, err |-> MustBeStopped, panic |-> FALSE]
    ELSE IF e.Start = 0
    THEN [times |-> tms, entry |-> [e EXCEPT !.Duration = d], err |-> "",
          panic |-> TRUE]
    ELSE [times |-> Append(tms, AddSeconds(tms[e.Start], d)),
          entry |-> [e EXCEPT !.Duration = d, !.Stop = Len(tms) + 1],
          err   |-> "", panic |-> FALSE]

(* func (e *TimeEntry) SetStartTime(start time.Time, updateEnd bool).  The *)
(* parameter start escapes to the heap: e.Start points to a new variable.  *)
(* With updateEnd false a nil Stop panics after Start has been set.        *)
SetStartTime(tms, e, start, updateEnd) ==
    LET tms1 == Append(tms, start)
        e1   == [e EXCEPT !.Start = Len(tms) + 1]
    IN  IF ~IsRunning(e1)
        THEN IF updateEnd
             THEN [times |-> Append(tms1, AddSeconds(start, e1.Duration)),
                   entry |-> [e1 EXCEPT !.Stop = Len(tms1) + 1],
                   panic |-> FALSE]
             ELSE IF e1.Stop = 0
             THEN [times |-> tms1, entry |-> e1, panic |-> TRUE]
             ELSE [times |-> tms1,
                   entry |-> [e1 EXCEPT !.Duration =
                                Unix(tms1[e1.Stop]) - Unix(tms1[e1.Start])],
                   panic |-> FALSE]
        ELSE [times |-> tms1, entry |-> e1, panic |-> FALSE]

SetStopTimeUnguarded(tms, e, stop) ==
    LET tms1 == Append(tms, stop)
        e1   == [e EXCEPT !.Stop = Len(tms) + 1]
    IN  IF e1.Start = 0
        THEN [times |-> tms1, entry |-> e1, err |-> "", panic |-> TRUE]
        ELSE [times |-> tms1,
              entry |-> [e1 EXCEPT !.Duration = SubSeconds(stop, tms1[e1.Start])],
              err   |-> "", panic |-> FALSE]

(* func (e *TimeEntry) SetStopTime(stop time.Time) error.  A nil Start     *)
(* panics after Stop has been set.                                         *)
SetStopTime(tms, e, stop) ==
    IF IsRunning(e)
    THEN [times |-> tms, entry |-> e, err |-> MustBeStopped, panic |-> FALSE]
    ELSE LET tms1 == Append(tms, stop)
             e1   == [e EXCEPT !.Stop = Len(tms) + 1]
         IN  IF e1.Start = 0
             THEN [times |-> tms1, entry |-> e1, err |-> "", panic |-> TRUE]
             ELSE [times |-> tms1,
                   entry |-> [e1 EXCEPT !.Duration =
                                SubSeconds(stop, tms1[e1.Start])],
                   err   |-> "", panic |-> FALSE]

----------------------------------------------------------------------------
(* The garbage collector: heap variables no entry points to any more are   *)
(* dropped, and the remaining ones are numbered in the order orig.Start,   *)
(* orig.Stop, cpy.Start, cpy.Stop (orig.Tags, cpy.Tags for the arrays).    *)
(* Two pointers are equal after collection exactly when they were before.  *)

Rank(live, a) ==
    LET first == CHOOSE i \in 1..Len(live) :
                    live[i] = a /\ \A j \in 1..(i - 1) : live[j] # a
    IN  Cardinality({live[j] : j \in 1..first})

Renumber(live, a) == IF a = 0 THEN 0 ELSE Rank(live, a)

Compact(heap, live) ==
    LET addrs == {live[j] : j \in 1..Len(live)}
    IN  [k \in 1..Cardinality(addrs) |->
            heap[CHOOSE a \in addrs : Rank(live, a) = k]]

Collect(tms, arrs, o, c) ==
    LET liveT == SelectSeq(<<o.Start, o.Stop, c.Start, c.Stop>>,
                           LAMBDA a : a # 0)
        liveA == SelectSeq(<<o.Tags.arr, c.Tags.arr>>, LAMBDA a : a # 0)
        Move(e) == [e EXCEPT !.Start = Renumber(liveT, e.Start),
                             !.Stop = Renumber(liveT, e.Stop),
                             !.Tags.arr = Renumber(liveA, e.Tags.arr)]
    IN  [times  |-> Compact(tms, liveT),
         arrays |-> Compact(arrs, liveA),
         orig   |-> Move(o),
         cpy    |-> Move(c)]

----------------------------------------------------------------------------
(* The helper calls of a caller that holds a TimeEntry and, once it has    *)
(* called Copy, a copy of it.                                              *)

ZeroTime == [sec |-> 0, nsec |-> 0]

Target(who) == IF who = "orig" THEN orig ELSE cpy

Other(who) == IF who = "orig" THEN cpy ELSE orig

(* An entry as read by a caller is stopped and consistent: Duration is not *)
(* negative, Start and Stop are set to whole seconds, and Stop is Start    *)
(* plus Duration seconds.                                                  *)
StoppedConsistent(v) ==
    /\ v.Duration >= 0
    /\ v.Start # <<>>
    /\ v.Stop # <<>>
    /\ v.Start[1].nsec = 0
    /\ v.Stop[1].nsec = 0
    /\ v.Stop[1].sec = v.Start[1].sec + v.Duration

(* SetDuration, SetStartTime and SetStopTime are the helpers that write    *)
(* the duration and the timestamps.                                        *)
TimeSetters == {"SetDuration", "SetStartTime", "SetStopTime"}

(* The record of a helper call, with what the caller saw before it.        *)
(* sinceConsistent: the entry was stopped and consistent before this call  *)
(* or before an earlier one, and every call since then was a call of a     *)
(* time setter with a whole-second argument that returned without error.   *)
Call(op, who, tag, d, t, updateEnd, err, ret, panic) ==
    [op |-> op, who |-> who, tag |-> tag, d |-> d, t |-> t,
     updateEnd |-> updateEnd, err |-> err, ret |-> ret, panic |-> panic,
     preView  |-> View(times, arrays, Target(who)),
     preOther |-> View(times, arrays, Other(who)),
     body |-> [kind |-> "none"], decodeErr |-> <<>>,
     sinceConsistent |->
        /\ op \in TimeSetters
        /\ err = ""
        /\ ~panic
        /\ t.nsec = 0
        /\ \/ last.sinceConsistent /\ last.who = who
           \/ StoppedConsistent(View(times, arrays, Target(who)))]

NoCall ==
    [op |-> "none", who |-> "orig", tag |-> "", d |-> 0, t |-> ZeroTime,
     updateEnd |-> FALSE, err |-> "", ret |-> FALSE, panic |-> FALSE,
     preView  |-> View(<<>>, <<>>, ZeroEntry),
     preOther |-> View(<<>>, <<>>, ZeroEntry),
     body |-> [kind |-> "none"], decodeErr |-> <<>>,
     sinceConsistent |-> FALSE]

(* A panic ends the program; the copy exists once Copy has returned.       *)
Callable(who) == ~last.panic /\ (who = "cpy" => copied)

(* The values the model lets seconds and durations reach.                  *)
Limit == MaxSec + MaxDur + 1

InRange(tms, e) ==
    /\ e.Duration >= 0 - Limit /\ e.Duration <= Limit
    /\ \A k \in 1..Len(tms) : tms[k].sec >= 0 - Limit /\ tms[k].sec <= Limit

(* The heap and the entries after a call on the entry who.                 *)
Commit(who, tms, arrs, e) ==
    LET g == Collect(tms, arrs, IF who = "orig" THEN e ELSE orig,
                                IF who = "cpy" THEN e ELSE cpy)
    IN  /\ InRange(g.times, e)
        /\ times' = g.times
        /\ arrays' = g.arrays
        /\ orig' = g.orig
        /\ cpy' = g.cpy

OptTimes == {<<>>} \cup {<<t>> : t \in TimeVals}

InitTagSeqs == UNION {[1..n -> TagNames] : n \in 0..MaxTags}

NoSession == [APIToken |-> "", username |-> "", password |-> ""]

NoResult ==
    [op |-> "none", entry |-> View(<<>>, <<>>, ZeroEntry), err |-> <<>>,
     project |-> [Wid |-> 0, ID |-> 0, Cid |-> <<>>, Name |-> "",
                  Active |-> FALSE, Billable |-> <<>>,
                  ServerDeletedAt |-> <<>>],
     panic |-> FALSE, timer |-> View(<<>>, <<>>, ZeroEntry),
     duronly |-> FALSE, now |-> ZeroTime, before |-> {}, beforeNext |-> 1,
     account |-> [APIToken |-> "", ID |-> 0],
     login |-> [username |-> "", password |-> ""],
     sessionBefore |-> NoSession, pending |-> FALSE]

(* A TimeEntry as a caller may hold it: any duration, start and stop       *)
(* present or not, any tags.                                               *)
EntryOf(dur, start, stop, tags) ==
    [Wid |-> 7, ID |-> 42, Pid |-> <<3>>, Tid |-> <<>>,
     Description |-> "work",
     Stop  |-> IF stop = <<>> THEN 0 ELSE Len(start) + 1,
     Start |-> IF start = <<>> THEN 0 ELSE 1,
     Tags  |-> IF tags = <<>> THEN NilSlice
               ELSE [arr |-> 1, len |-> Len(tags), cap |-> Len(tags)],
     Duration |-> dur, DurOnly |-> FALSE, Billable |-> TRUE]

InitHolding(dur, start, stop, tags) ==
    /\ times = start \o stop
    /\ arrays = IF tags = <<>> THEN <<>> ELSE <<tags>>
    /\ orig = EntryOf(dur, start, stop, tags)
    /\ cpy = ZeroEntry
    /\ copied = FALSE
    /\ last = NoCall
    /\ session = NoSession
    /\ server = {}
    /\ nextID = 1
    /\ reqs = <<>>
    /\ res = NoResult

CallIsRunning(who) ==
    /\ Callable(who)
    /\ last' = Call("IsRunning", who, "", 0, ZeroTime, FALSE, "",
                    IsRunning(Target(who)), FALSE)
    /\ UNCHANGED <<orig, cpy, copied, times, arrays>>
    /\ UNCHANGED sessionVars

CallHasTag(who, tag) ==
    /\ Callable(who)
    /\ last' = Call("HasTag", who, tag, 0, ZeroTime, FALSE, "",
                    HasTag(arrays, Target(who), tag), FALSE)
    /\ UNCHANGED <<orig, cpy, copied, times, arrays>>
    /\ UNCHANGED sessionVars

CallCopy ==
    /\ ~last.panic
    /\ LET r == Copy(times, arrays, orig)
       IN  Commit("cpy", r.times, r.arrays, r.entry)
    /\ copied' = TRUE
    /\ last' = Call("Copy", "orig", "", 0, ZeroTime, FALSE, "", FALSE, FALSE)
    /\ UNCHANGED sessionVars

CallAddTag(who, tag) ==
    /\ Callable(who)
    /\ LET r == AddTag(arrays, Target(who), tag)
       IN  Commit(who, times, r.arrays, r.entry)
    /\ last' = Call("AddTag", who, tag, 0, ZeroTime, FALSE, "", FALSE, FALSE)
    /\ UNCHANGED copied
    /\ UNCHANGED sessionVars

CallRemoveTag(who, tag) ==
    /\ Callable(who)
    /\ LET r == RemoveTag(arrays, Target(who), tag)
       IN  Commit(who, times, r.arrays, r.entry)
    /\ last' = Call("RemoveTag", who, tag, 0, ZeroTime, FALSE, "", FALSE, FALSE)
    /\ UNCHANGED copied
    /\ UNCHANGED sessionVars

CallSetDuration(who, d) ==
    /\ Callable(who)
    /\ LET r == SetDuration(times, Target(who), d)
       IN  /\ Commit(who, r.times, arrays, r.entry)
           /\ last' = Call("SetDuration", who, "", d, ZeroTime, FALSE, r.err,
                           FALSE, r.panic)
    /\ UNCHANGED copied
    /\ UNCHANGED sessionVars

CallSetStartTime(who, start, updateEnd) ==
    /\ Callable(who)
    /\ LET r == SetStartTime(times, Target(who), start, updateEnd)
       IN  /\ Commit(who, r.times, arrays, r.entry)
           /\ last' = Call("SetStartTime", who, "", 0, start, updateEnd, "",
                           FALSE, r.panic)
    /\ UNCHANGED copied
    /\ UNCHANGED sessionVars

CallSetStopTime(who, stop) ==
    /\ Callable(who)
    /\ LET r == SetStopTime(times, Target(who), stop)
       IN  /\ Commit(who, r.times, arrays, r.entry)
           /\ last' = Call("SetStopTime", who, "", 0, stop, FALSE, r.err,
                           FALSE, r.panic)
    /\ UNCHANGED copied
    /\ UNCHANGED sessionVars

----------------------------------------------------------------------------
(* SpecTimes: the duration and timestamp helpers on one entry.             *)

InitTimes ==
    \E dur \in Durations, start \in OptTimes, stop \in OptTimes :
        InitHolding(dur, start, stop, <<"a", "b">>)

NextTimes ==
    \/ CallIsRunning("orig")
    \/ \E d \in Durations : CallSetDuration("orig", d)
    \/ \E t \in TimeVals, u \in BOOLEAN : CallSetStartTime("orig", t, u)
    \/ \E t \in TimeVals : CallSetStopTime("orig", t)

SpecTimes == InitTimes /\ [][NextTimes]_vars

(* SpecTags: the tag helpers on one entry.                                 *)

InitTags ==
    \E tags \in InitTagSeqs :
        InitHolding(1, <<ZeroTime>>, <<[sec |-> 1, nsec |-> 0]>>, tags)

NextTags ==
    \/ \E tag \in TagNames : CallHasTag("orig", tag)
    \/ \E tag \in TagNames : CallAddTag("orig", tag)
    \/ \E tag \in TagNames : CallRemoveTag("orig", tag)

SpecTags == InitTags /\ [][NextTags]_vars

(* SpecCopy: every mutating helper on an entry and on its copy.            *)

CopyTime == [sec |-> 1, nsec |-> 0]

InitCopy ==
    \E dur \in {0 - 1, 1}, tags \in {<<>>, <<"a", "b">>} :
        InitHolding(dur, <<ZeroTime>>, <<CopyTime>>, tags)

NextCopy ==
    \/ CallCopy
    \/ \E who \in {"orig", "cpy"} : CallAddTag(who, "a")
    \/ \E who \in {"orig", "cpy"} : CallRemoveTag(who, "a")
    \/ \E who \in {"orig", "cpy"} : CallSetDuration(who, 1)
    \/ \E who \in {"orig", "cpy"}, u \in BOOLEAN :
          CallSetStartTime(who, CopyTime, u)
    \/ \E who \in {"orig", "cpy"} : CallSetStopTime(who, CopyTime)

SpecCopy == InitCopy /\ [][NextCopy]_vars

----------------------------------------------------------------------------
(* The Session side.  A TimeEntry that travels in a request or a response  *)
(* is the value a caller reads from it (View): Start and Stop are <<>> for *)
(* nil and <<t>> otherwise, Tags is the sequence of tags.                  *)

ZeroValue == View(<<>>, <<>>, ZeroEntry)

TogglAPI == "https://api.track.toggl.com/api/v9"

(* An error is the sequence of the pieces of its message; <<>> is nil.     *)
NoError == <<>>

TransportError == "transport error"

DecodeError == "decode error"

NotDeleted == "old entry not deleted: "

(* resp.Status for the status codes the model's server answers with.       *)
StatusLine(status) ==
    CASE status = 101 -> "101 Switching Protocols"
      [] status = 200 -> "200 OK"
      [] status = 399 -> "399 "
      [] status = 400 -> "400 Bad Request"
      [] status = 404 -> "404 Not Found"
      [] OTHER -> "500 Internal Server Error"

(* generateResourceURL(timeEntries, wid)                                   *)
generateResourceURL(resource, wid) ==
    [resource |-> resource, wid |-> wid, id |-> 0, suffix |-> ""]

(* generateResourceURLWithID(timeEntries, wid, id)                         *)
generateResourceURLWithID(resource, wid, id) ==
    [generateResourceURL(resource, wid) EXCEPT !.id = id]

(* func (session *Session) request(method, requestURL, body).  reply is    *)
(* what client.Do and io.ReadAll give: a transport error, or a status and  *)
(* a body.  content is <<>> for a nil slice.                               *)
request(sess, method, url, body, reply) ==
    LET req == [method |-> method, url |-> url, body |-> body,
                user |-> IF sess.APIToken # "" THEN sess.APIToken
                         ELSE sess.username,
                pass |-> IF sess.APIToken # "" THEN "api_token"
                         ELSE sess.password]
    IN  IF reply.transport
        THEN [content |-> <<>>, err |-> <<TransportError>>, req |-> req]
        ELSE IF reply.status < 200 \/ reply.status >= 400
        THEN [content |-> <<reply.body>>, err |-> <<StatusLine(reply.status)>>,
              req |-> req]
        ELSE [content |-> <<reply.body>>, err |-> NoError, req |-> req]

NoBody == [kind |-> "none", entry |-> ZeroValue]

(* func (session *Session) get / post / patch / delete                     *)
get(sess, url, reply) == request(sess, "GET", url, NoBody, reply)

post(sess, url, data, reply) == request(sess, "POST", url, data, reply)

put(sess, url, data, reply) == request(sess, "PUT", url, data, reply)

patch(sess, url, reply) == request(sess, "PATCH", url, NoBody, reply)

delete(sess, url, reply) == request(sess, "DELETE", url, NoBody, reply)

(* A timestamp string of a JSON time entry, by what time.Parse reads in    *)
(* it: form "Z" is date and time followed by the letter Z, form "offset"   *)
(* is date and time followed by a numeric offset such as +01:00, form      *)
(* "bad" is any other non-empty string, form "empty" is "".  t is the date *)
(* and time as written (with its fractional second), off the offset east   *)
(* of UTC in seconds.  In the JSON object the key may also be missing or   *)
(* null: form "absent".                                                    *)
EmptyString == [form |-> "empty", t |-> [sec |-> 0, nsec |-> 0], off |-> 0]

ZLayout == "2006-01-02T15:04:05Z"

OffsetLayout == "2006-01-02T15:04:05-07:00"

ParseError == "parsing time"

(* time.Parse(layout, s) for the two layouts of parseTime: the Z of the    *)
(* first layout is a literal, so the string must end in Z and is read as   *)
(* UTC; the second layout needs a numeric offset, and the instant is the   *)
(* written time less the offset.  The error names the layout.              *)
timeParse(layout, s) ==
    IF layout = ZLayout /\ s.form = "Z"
    THEN [t |-> s.t, err |-> NoError]
    ELSE IF layout = OffsetLayout /\ s.form = "offset"
    THEN [t |-> AddSeconds(s.t, 0 - s.off), err |-> NoError]
    ELSE [t |-> [sec |-> 0, nsec |-> 0], err |-> <<ParseError, layout>>]

(* if err != nil { t, err = time.Parse(second layout, s) }: what parseTime *)
(* returns after the first attempt gave first.                             *)
retryWithOffset(first, s) ==
    IF first.err # NoError THEN timeParse(OffsetLayout, s) ELSE first

parseTimeZOnly(s) == timeParse(ZLayout, s)

(* parseTime in asTimeEntry: the layout with a literal Z is tried first,   *)
(* the layout with a numeric offset when that failed.                      *)
parseTime(s) == retryWithOffset(timeParse(ZLayout, s), s)

(* func (t *tempTimeEntry) asTimeEntry() (TimeEntry, error)                *)
asTimeEntry(t) ==
    LET entry == [t EXCEPT !.Start = <<>>, !.Stop = <<>>]
        start == parseTime(t.Start)
        stop  == parseTime(t.Stop)
    IN  IF t.Start.form # "empty" /\ start.err # NoError
        THEN [entry |-> entry, err |-> start.err]
        ELSE LET e1 == IF t.Start.form # "empty"
                       THEN [entry EXCEPT !.Start = <<start.t>>] ELSE entry
             IN  IF t.Stop.form # "empty" /\ stop.err # NoError
                 THEN [entry |-> e1, err |-> stop.err]
                 ELSE [entry |-> IF t.Stop.form # "empty"
                                 THEN [e1 EXCEPT !.Stop = <<stop.t>>] ELSE e1,
                       err   |-> NoError]

(* json.Unmarshal(b, &entry) into a tempTimeEntry (line 758): a missing or *)
(* null start or stop leaves the string empty.                             *)
tempTimeEntry(wire) ==
    [wire EXCEPT
        !.Start = IF wire.Start.form = "absent" THEN EmptyString
                  ELSE wire.Start,
        !.Stop  = IF wire.Stop.form = "absent" THEN EmptyString
                  ELSE wire.Stop]

(* func (e *TimeEntry) UnmarshalJSON(b []byte) error, e pointing to the    *)
(* value dest: the value is assigned only when both decoding steps         *)
(* succeed.                                                                *)
UnmarshalJSON(dest, body) ==
    IF body.kind = "garbage"
    THEN [entry |-> dest, err |-> <<DecodeError>>]
    ELSE LET te == asTimeEntry(tempTimeEntry(body.entry))
         IN  IF te.err # NoError
             THEN [entry |-> dest, err |-> te.err]
             ELSE [entry |-> te.entry, err |-> NoError]

(* func handleTimeEntryResponse(data, err) (TimeEntry, error).  decoded    *)
(* tells whether json.Unmarshal ran on data.                               *)
handleTimeEntryResponse(data, err) ==
    IF err # NoError
    THEN [entry |-> ZeroValue, err |-> err, decoded |-> FALSE]
    ELSE LET u == UnmarshalJSON(ZeroValue, data[1])
         IN  IF u.err # NoError
             THEN [entry |-> ZeroValue, err |-> u.err, decoded |-> TRUE]
             ELSE [entry |-> u.entry, err |-> NoError, decoded |-> TRUE]

(* func newStartEntryRequestData(description, workspaceId): now is what    *)
(* time.Now() returns.                                                     *)
newStartEntryRequestData(description, workspaceId, now) ==
    [kind |-> "create",
     entry |-> [ZeroValue EXCEPT !.Duration = 0 - 1,
                                 !.Description = description,
                                 !.Start = <<now>>,
                                 !.Wid = workspaceId]]

(* func (t timeEntryCreate) withMetadataFromTimeEntry(timeEntry)           *)
withMetadataFromTimeEntry(t, timeEntry) ==
    [t EXCEPT !.entry.Pid = timeEntry.Pid,
              !.entry.Tid = timeEntry.Tid,
              !.entry.Tags = timeEntry.Tags,
              !.entry.Billable = timeEntry.Billable]

(* One request of an operation, as the operation saw it.                   *)
Exchange(r, reply, decoded, decodeErr) ==
    [req |-> r.req, reply |-> reply, content |-> r.content, err |-> r.err,
     failed |-> r.err # NoError, decoded |-> decoded,
     decodeFailed |-> decodeErr]

(* func (session *Session) startTimeEntry(timeEntry timeEntryCreate)       *)
startTimeEntry(sess, timeEntry, reply) ==
    LET r == post(sess, generateResourceURL("time_entries", timeEntry.entry.Wid),
                  timeEntry, reply)
        h == handleTimeEntryResponse(r.content, r.err)
    IN  [entry |-> h.entry, err |-> h.err,
         log |-> <<Exchange(r, reply, h.decoded,
                            h.decoded /\ h.err # NoError)>>]

(* func (session *Session) StartTimeEntry(description, wid)                *)
StartTimeEntry(sess, description, wid, now, reply) ==
    startTimeEntry(sess, newStartEntryRequestData(description, wid, now), reply)

(* func (session *Session) StartTimeEntryForProject(description, wid,       *)
(* projectID, billable *bool): billable is <<>> for nil, <<b>> otherwise.  *)
StartTimeEntryForProject(sess, description, wid, projectID, billable, now, reply) ==
    startTimeEntry(sess,
        [newStartEntryRequestData(description, wid, now) EXCEPT
            !.entry.Pid = <<projectID>>,
            !.entry.Billable = IF billable # <<>> THEN billable[1] ELSE @],
        reply)

(* func (session *Session) AddRemoveTag(timeEntryId, tag, add, wid)        *)
AddRemoveTag(sess, timeEntryId, tag, add, wid, reply) ==
    LET data == [kind |-> "tags", entry |-> ZeroValue, tags |-> <<tag>>,
                 tag_action |-> IF ~add THEN "remove" ELSE "add"]
        r == put(sess, generateResourceURLWithID("time_entries", wid,
                                                 timeEntryId), data, reply)
        h == handleTimeEntryResponse(r.content, r.err)
    IN  [entry |-> h.entry, err |-> h.err,
         log |-> <<Exchange(r, reply, h.decoded,
                            h.decoded /\ h.err # NoError)>>]

(* func (session *Session) DeleteTimeEntry(timer) ([]byte, error)          *)
DeleteTimeEntry(sess, timer, reply) ==
    LET r == delete(sess, generateResourceURLWithID("time_entries", timer.Wid,
                                                    timer.ID), reply)
    IN  [content |-> r.content, err |-> r.err,
         log |-> <<Exchange(r, reply, FALSE, FALSE)>>]

(* func (session *Session) StopTimeEntry(timer)                            *)
StopTimeEntry(sess, timer, reply) ==
    LET r == patch(sess, [generateResourceURLWithID("time_entries", timer.Wid,
                              timer.ID) EXCEPT !.suffix = "/stop"], reply)
        h == handleTimeEntryResponse(r.content, r.err)
    IN  [entry |-> h.entry, err |-> h.err,
         log |-> <<Exchange(r, reply, h.decoded,
                            h.decoded /\ h.err # NoError)>>]

(* Project{}: the zero value of the struct.                                *)
ZeroProject ==
    [Wid |-> 0, ID |-> 0, Cid |-> <<>>, Name |-> "", Active |-> FALSE,
     Billable |-> <<>>, ServerDeletedAt |-> <<>>]

(* func (session *Session) GetProject(id, wid) (Project, error)            *)
GetProject(sess, id, wid, reply) ==
    LET r == get(sess, generateResourceURLWithID("projects", wid, id), reply)
    IN  IF r.err # NoError
        THEN [project |-> ZeroProject, err |-> r.err,
              log |-> <<Exchange(r, reply, FALSE, FALSE)>>]
        ELSE IF r.content[1].kind # "project"
        THEN [project |-> ZeroProject, err |-> <<DecodeError>>,
              log |-> <<Exchange(r, reply, TRUE, TRUE)>>]
        ELSE [project |-> r.content[1].project, err |-> NoError,
              log |-> <<Exchange(r, reply, TRUE, FALSE)>>]

(* func (session *Session) UpdateTimeEntry(timer) (TimeEntry, error)       *)
UpdateTimeEntry(sess, timer, reply) ==
    LET r == put(sess, generateResourceURLWithID("time_entries", timer.Wid,
                                                 timer.ID),
                 [kind |-> "update", entry |-> timer], reply)
        h == handleTimeEntryResponse(r.content, r.err)
    IN  [entry |-> h.entry, err |-> h.err,
         log |-> <<Exchange(r, reply, h.decoded,
                            h.decoded /\ h.err # NoError)>>]

(* NewSession has not been called: no username and no password.          *)
NoLogin == [username |-> "", password |-> ""]

(* Account{}: the zero value of the struct, of which the model keeps the   *)
(* token and the id.                                                       *)
ZeroAccount == [APIToken |-> "", ID |-> 0]

(* func decodeAccount(data, account): the fields the JSON object names are *)
(* stored, the others stay zero; data that is not a JSON object fails.     *)
decodeAccount(data) ==
    IF data[1].kind = "account"
    THEN [account |-> data[1].account, err |-> NoError]
    ELSE [account |-> ZeroAccount, err |-> <<DecodeError>>]

(* TogglAPI + "/me", with the encoded parameters                           *)
MeURL(params) == [resource |-> "me", wid |-> 0, id |-> 0, suffix |-> params]

(* func OpenSession(apiToken string) Session                               *)
OpenSession(apiToken) ==
    [APIToken |-> apiToken, username |-> "", password |-> ""]

NewSessionKeepsPassword(username, password, reply) ==
    LET s1 == [OpenSession("") EXCEPT !.username = username,
                                      !.password = password]
        r  == get(s1, MeURL(""), reply)
        a  == decodeAccount(r.content)
    IN  IF r.err # NoError
        THEN [session |-> s1, err |-> r.err,
              log |-> <<Exchange(r, reply, FALSE, FALSE)>>]
        ELSE IF a.err # NoError
        THEN [session |-> s1, err |-> a.err,
              log |-> <<Exchange(r, reply, TRUE, TRUE)>>]
        ELSE [session |-> [s1 EXCEPT !.username = "",
                                     !.APIToken = a.account.APIToken],
              err |-> NoError,
              log |-> <<Exchange(r, reply, TRUE, FALSE)>>]

(* func NewSession(username, password string) (session Session, err error) *)
(* The request is made by the session under construction, which holds the  *)
(* username and the password and no token; that session is returned with   *)
(* the error when the request or the decoding fails.                       *)
NewSession(username, password, reply) ==
    LET s1 == [OpenSession("") EXCEPT !.username = username,
                                      !.password = password]
        r  == get(s1, MeURL(""), reply)
        a  == decodeAccount(r.content)
    IN  IF r.err # NoError
        THEN [session |-> s1, err |-> r.err,
              log |-> <<Exchange(r, reply, FALSE, FALSE)>>]
        ELSE IF a.err # NoError
        THEN [session |-> s1, err |-> a.err,
              log |-> <<Exchange(r, reply, TRUE, TRUE)>>]
        ELSE [session |-> [s1 EXCEPT !.username = "", !.password = "",
                                     !.APIToken = a.account.APIToken],
              err |-> NoError,
              log |-> <<Exchange(r, reply, TRUE, FALSE)>>]

(* func (session *Session) GetAccount() (Account, error)                   *)
GetAccount(sess, reply) ==
    LET r == get(sess, MeURL("?with_related_data=true"), reply)
        a == decodeAccount(r.content)
    IN  IF r.err # NoError
        THEN [account |-> ZeroAccount, err |-> r.err,
              log |-> <<Exchange(r, reply, FALSE, FALSE)>>]
        ELSE [account |-> a.account, err |-> a.err,
              log |-> <<Exchange(r, reply, TRUE, a.err # NoError)>>]

(* The creation payload UnstopTimeEntry builds (lines 428-430).            *)
unstopEntry(timer, now) ==
    [withMetadataFromTimeEntry(
        newStartEntryRequestData(timer.Description, timer.Wid, now),
        timer) EXCEPT !.entry.Start = timer.Start]

UnstopTimeEntryDropsEntry(sess, timer, now, reply1, reply2) ==
    LET entry == unstopEntry(timer, now)
        s == startTimeEntry(sess, entry, reply1)
        d == DeleteTimeEntry(sess, timer, reply2)
    IN  [entry |-> IF d.err # NoError THEN ZeroValue ELSE s.entry,
         err   |-> IF d.err # NoError THEN <<NotDeleted>> \o d.err ELSE d.err,
         log   |-> s.log \o d.log]

(* func (session *Session) UnstopTimeEntry(timer).  The error of           *)
(* startTimeEntry is assigned to err and then overwritten by the error of  *)
(* DeleteTimeEntry, which is called whatever startTimeEntry returned.      *)
UnstopTimeEntry(sess, timer, now, reply1, reply2) ==
    LET entry == unstopEntry(timer, now)
        s == startTimeEntry(sess, entry, reply1)
        d == DeleteTimeEntry(sess, timer, reply2)
    IN  [entry |-> s.entry,
         err   |-> IF d.err # NoError THEN <<NotDeleted>> \o d.err ELSE d.err,
         log   |-> s.log \o d.log]

(* The seconds in a day, and the local calendar day of an instant (the     *)
(* "2006-01-02" format of t.Local()), for a machine on UTC.                *)
SecondsPerDay == 86400

Day(t) == t.sec \div SecondsPerDay

(* The branch of ContinueTimeEntry: "panic" when duronly is set and        *)
(* timer.Start is nil.                                                     *)
ContinueBranch(timer, duronly, now) ==
    IF ~duronly THEN "start"
    ELSE IF timer.Start = <<>> THEN "panic"
    ELSE IF Day(now) = Day(timer.Start[1]) THEN "unstop"
    ELSE "start"

ContinueTimeEntryAlwaysNew(sess, timer, duronly, now, reply1, reply2) ==
    startTimeEntry(sess,
        withMetadataFromTimeEntry(
            newStartEntryRequestData(timer.Description, timer.Wid, now),
            timer),
        reply1)

(* func (session *Session) ContinueTimeEntry(timer, duronly), when it does *)
(* not panic.                                                              *)
ContinueTimeEntry(sess, timer, duronly, now, reply1, reply2) ==
    IF ContinueBranch(timer, duronly, now) = "unstop"
    THEN UnstopTimeEntry(sess, timer, now, reply1, reply2)
    ELSE startTimeEntry(sess,
             withMetadataFromTimeEntry(
                 newStartEntryRequestData(timer.Description, timer.Wid, now),
                 timer),
             reply1)

----------------------------------------------------------------------------
(* The Toggl server, as far as the client can tell: it holds time entries  *)
(* under ids it never reuses, applies a request exactly when it answers    *)
(* with a status in [200, 400), and cannot delete or stop an entry it does *)
(* not hold.                                                               *)

MaxID == 2

OkStatuses == {200, 399}

FailStatuses == {101, 400}

(* The offset the server writes in the timestamps it gives an offset.      *)
OffsetEast == 60 * 60

(* The timestamp string of an instant in the given form.                   *)
Stamp(opt, form) ==
    IF opt = <<>> THEN EmptyString
    ELSE IF form = "offset"
    THEN [form |-> form, t |-> AddSeconds(opt[1], OffsetEast),
          off |-> OffsetEast]
    ELSE [form |-> form, t |-> opt[1], off |-> 0]

(* The JSON of an entry, its timestamps written in the given form.         *)
ToWire(e, form) ==
    [e EXCEPT !.Start = Stamp(e.Start, form), !.Stop = Stamp(e.Stop, form)]

ZeroWire == ToWire(ZeroValue, "Z")

TransportFailures ==
    {[transport |-> TRUE, status |-> 0,
      body |-> [kind |-> "none", entry |-> ZeroWire]]}

StatusFailures ==
    {[transport |-> FALSE, status |-> st,
      body |-> [kind |-> "error", entry |-> ZeroWire]] : st \in FailStatuses}

Failures == TransportFailures \cup StatusFailures

(* The answers to a request that returns the entry e: its JSON in either   *)
(* timestamp form, its JSON with an unreadable start, or no JSON at all.   *)
EntryReplies(e) ==
    {[transport |-> FALSE, status |-> 200, body |-> b] :
        b \in {[kind |-> "entry", entry |-> ToWire(e, "Z")],
               [kind |-> "entry", entry |-> ToWire(e, "offset")],
               [kind |-> "entry", entry |-> ToWire(e, "bad")],
               [kind |-> "garbage", entry |-> ZeroWire]}}
    \cup {[transport |-> FALSE, status |-> 399,
           body |-> [kind |-> "entry", entry |-> ToWire(e, "Z")]]}

EmptyReplies ==
    {[transport |-> FALSE, status |-> st,
      body |-> [kind |-> "none", entry |-> ZeroWire]] : st \in OkStatuses}

Applied(reply) ==
    ~reply.transport /\ reply.status >= 200 /\ reply.status < 400

IDs(srv) == {e.ID : e \in srv}

Holds(srv, id) == id \in IDs(srv)

ById(srv, id) == CHOOSE e \in srv : e.ID = id

(* The entry the server makes of a creation payload.                       *)
Created(data, id) == [data.entry EXCEPT !.ID = id]

(* The entry after a PUT of a tag action: the tag is added unless the      *)
(* entry has it, or every occurrence of it is removed.                     *)
Tagged(e, tag, action) ==
    IF action = "add"
    THEN IF \E i \in 1..Len(e.Tags) : e.Tags[i] = tag THEN e
         ELSE [e EXCEPT !.Tags = Append(@, tag)]
    ELSE [e EXCEPT !.Tags = SelectSeq(@, LAMBDA t : t # tag)]

(* The entry after PATCH .../stop at the instant now.                      *)
Stopped(e, now) ==
    IF e.Duration < 0 /\ e.Start # <<>>
    THEN [e EXCEPT !.Stop = <<now>>, !.Duration = SubSeconds(now, e.Start[1])]
    ELSE e

----------------------------------------------------------------------------
(* SpecSession: a caller with an open session starts, stops, deletes,      *)
(* unstops and continues time entries.                                     *)

Today == [sec |-> SecondsPerDay + 100, nsec |-> 0]

NowVals == {[sec |-> SecondsPerDay + 200, nsec |-> HalfSecond],
            [sec |-> 2 * SecondsPerDay + 50, nsec |-> 0]}

(* The account has one stopped entry, started on the day of the first of  *)
(* NowVals and the day before the second.                                  *)
InitialEntries ==
    {[ZeroValue EXCEPT !.ID = 1, !.Wid = 7, !.Description = "work",
                       !.Start = <<Today>>, !.Stop = <<AddSeconds(Today, 30)>>,
                       !.Duration = 30, !.Tags = <<"a">>, !.Billable = TRUE,
                       !.Pid = <<3>>]}

(* The entries a caller can pass: those on the server, the one it fetched  *)
(* at the start (by now perhaps changed or deleted), and one it built      *)
(* without a start.                                                        *)
Held ==
    server \cup InitialEntries
           \cup {[e EXCEPT !.Start = <<>>, !.Stop = <<>>] : e \in
                    {x \in server : x.ID = 1}}

Result(op, entry, err, panic, timer, duronly, now) ==
    [op |-> op, entry |-> entry, err |-> err, panic |-> panic,
     project |-> ZeroProject,
     timer |-> timer, duronly |-> duronly, now |-> now,
     before |-> IDs(server), beforeNext |-> nextID,
     account |-> ZeroAccount, login |-> NoLogin, sessionBefore |-> session,
     pending |-> FALSE]

(* The caller is between two calls: no result is pending and the program  *)
(* has not panicked.                                                       *)
Idle == res.op = "none" /\ ~res.panic

InitSession ==
    /\ session = OpenSession("token")
    /\ server = InitialEntries
    /\ nextID = 2
    /\ reqs = <<>>
    /\ res = NoResult
    /\ orig = ZeroEntry
    /\ cpy = ZeroEntry
    /\ copied = FALSE
    /\ times = <<>>
    /\ arrays = <<>>
    /\ last = NoCall

CallStartTimeEntry(now) ==
    /\ Idle
    /\ nextID <= MaxID
    /\ \E made \in {Created(newStartEntryRequestData("work", 7, now), nextID)} :
       \E reply \in Failures \cup EntryReplies(made) :
       \E r \in {StartTimeEntry(session, "work", 7, now, reply)} :
          /\ server' = IF Applied(reply) THEN server \cup {made} ELSE server
          /\ nextID' = IF Applied(reply) THEN nextID + 1 ELSE nextID
          /\ reqs' = r.log
          /\ res' = Result("StartTimeEntry", r.entry, r.err, FALSE, ZeroValue,
                           FALSE, now)
    /\ UNCHANGED session
    /\ UNCHANGED entryVars

(* The project a caller starts entries for.                               *)
ProjectIDs == {3}

(* The billable argument: nil or a pointer to true.                        *)
BillableArgs == {<<>>, <<TRUE>>}

CallStartTimeEntryForProject(projectID, billable, now) ==
    /\ Idle
    /\ nextID <= MaxID
    /\ \E made \in {Created([newStartEntryRequestData("work", 7, now) EXCEPT
                                !.entry.Pid = <<projectID>>,
                                !.entry.Billable = billable = <<TRUE>>],
                             nextID)} :
       \E reply \in Failures \cup EntryReplies(made) :
       \E r \in {StartTimeEntryForProject(session, "work", 7, projectID,
                                          billable, now, reply)} :
          /\ server' = IF Applied(reply) THEN server \cup {made} ELSE server
          /\ nextID' = IF Applied(reply) THEN nextID + 1 ELSE nextID
          /\ reqs' = r.log
          /\ res' = Result("StartTimeEntryForProject", r.entry, r.err, FALSE,
                           ZeroValue, FALSE, now)
    /\ UNCHANGED session
    /\ UNCHANGED entryVars

CallAddRemoveTag(timeEntryId, tag, add) ==
    /\ Idle
    /\ \E reply \in Failures \cup
                    (IF Holds(server, timeEntryId)
                     THEN EntryReplies(Tagged(ById(server, timeEntryId), tag,
                                              IF add THEN "add" ELSE "remove"))
                     ELSE {}) :
       \E r \in {AddRemoveTag(session, timeEntryId, tag, add, 7, reply)} :
          /\ server' = IF Applied(reply)
                       THEN (server \ {ById(server, timeEntryId)}) \cup
                            {Tagged(ById(server, timeEntryId), tag,
                                    IF add THEN "add" ELSE "remove")}
                       ELSE server
          /\ reqs' = r.log
          /\ res' = Result("AddRemoveTag", r.entry, r.err, FALSE, res.timer,
                           FALSE, ZeroTime)
    /\ UNCHANGED <<session, nextID>>
    /\ UNCHANGED entryVars

CallStopTimeEntry(timer, now) ==
    /\ Idle
    /\ \E reply \in Failures \cup
                    (IF Holds(server, timer.ID)
                     THEN EntryReplies(Stopped(ById(server, timer.ID), now))
                     ELSE {}) :
       \E r \in {StopTimeEntry(session, timer, reply)} :
          /\ server' = IF Applied(reply)
                       THEN (server \ {ById(server, timer.ID)}) \cup
                            {Stopped(ById(server, timer.ID), now)}
                       ELSE server
          /\ reqs' = r.log
          /\ res' = Result("StopTimeEntry", r.entry, r.err, FALSE, timer,
                           FALSE, now)
    /\ UNCHANGED <<session, nextID>>
    /\ UNCHANGED entryVars

CallDeleteTimeEntry(timer) ==
    /\ Idle
    /\ \E reply \in Failures \cup
                    (IF Holds(server, timer.ID) THEN EmptyReplies ELSE {}) :
       \E r \in {DeleteTimeEntry(session, timer, reply)} :
          /\ server' = IF Applied(reply)
                       THEN {e \in server : e.ID # timer.ID} ELSE server
          /\ reqs' = r.log
          /\ res' = Result("DeleteTimeEntry", ZeroValue, r.err, FALSE, timer,
                           FALSE, ZeroTime)
    /\ UNCHANGED <<session, nextID>>
    /\ UNCHANGED entryVars

TheProject ==
    [ZeroProject EXCEPT !.Wid = 7, !.ID = 3, !.Name = "p", !.Active = TRUE]

ProjectReplies ==
    {[transport |-> FALSE, status |-> st, body |-> b] :
        st \in OkStatuses,
        b \in {[kind |-> "project", entry |-> ZeroWire, project |-> TheProject],
               [kind |-> "garbage", entry |-> ZeroWire]}}

CallGetProject(id) ==
    /\ Idle
    /\ \E reply \in Failures \cup (IF id = TheProject.ID THEN ProjectReplies
                                    ELSE {}) :
       \E r \in {GetProject(session, id, 7, reply)} :
          /\ reqs' = r.log
          /\ res' = [Result("GetProject", ZeroValue, r.err, FALSE, res.timer,
                            FALSE, ZeroTime)
                        EXCEPT !.project = r.project]
    /\ UNCHANGED <<session, server, nextID>>
    /\ UNCHANGED entryVars

(* UnstopTimeEntry makes two round trips.  The first step is the call up   *)
(* to the answer to its create request (line 432): the server has applied  *)
(* the request or not, and the call has not returned (pending).            *)
UnstopCreates(op, timer, duronly, now) ==
    \E made \in {Created(unstopEntry(timer, now), nextID)} :
    \E reply1 \in Failures \cup EntryReplies(made) :
    \E s \in {startTimeEntry(session, unstopEntry(timer, now), reply1)} :
       /\ server' = IF Applied(reply1) THEN server \cup {made} ELSE server
       /\ nextID' = IF Applied(reply1) THEN nextID + 1 ELSE nextID
       /\ reqs' = s.log
       /\ res' = [Result(op, ZeroValue, NoError, FALSE, timer, duronly, now)
                     EXCEPT !.pending = TRUE]

(* The second step: the delete request (line 433) is answered against what *)
(* the server holds by now, and the call returns.                          *)
UnstopDeletes ==
    /\ res.pending
    /\ \E reply2 \in Failures \cup
                     (IF Holds(server, res.timer.ID) THEN EmptyReplies
                      ELSE {}) :
       \E r \in {IF res.op = "UnstopTimeEntry"
                 THEN UnstopTimeEntry(session, res.timer, res.now,
                                      reqs[1].reply, reply2)
                 ELSE ContinueTimeEntry(session, res.timer, res.duronly,
                                        res.now, reqs[1].reply, reply2)} :
          /\ server' = IF Applied(reply2)
                       THEN {e \in server : e.ID # res.timer.ID} ELSE server
          /\ reqs' = r.log
          /\ res' = [res EXCEPT !.entry = r.entry, !.err = r.err,
                                !.pending = FALSE]
    /\ UNCHANGED <<session, nextID>>
    /\ UNCHANGED entryVars

CallUnstopTimeEntry(timer, now) ==
    /\ Idle
    /\ nextID <= MaxID
    /\ UnstopCreates("UnstopTimeEntry", timer, FALSE, now)
    /\ UNCHANGED session
    /\ UNCHANGED entryVars

CallContinueTimeEntry(timer, duronly, now) ==
    /\ Idle
    /\ nextID <= MaxID
    /\ CASE ContinueBranch(timer, duronly, now) = "panic" ->
              /\ res' = Result("ContinueTimeEntry", ZeroValue, NoError, TRUE,
                               timer, duronly, now)
              /\ reqs' = <<>>
              /\ UNCHANGED <<server, nextID>>
         [] ContinueBranch(timer, duronly, now) = "unstop" ->
              UnstopCreates("ContinueTimeEntry", timer, duronly, now)
         [] OTHER ->
              \E made \in {Created(withMetadataFromTimeEntry(
                              newStartEntryRequestData(timer.Description,
                                                       timer.Wid, now), timer),
                              nextID)} :
              \E reply \in Failures \cup EntryReplies(made) :
              \E r \in {ContinueTimeEntry(session, timer, duronly, now, reply,
                                          reply)} :
                 /\ server' = IF Applied(reply) THEN server \cup {made}
                              ELSE server
                 /\ nextID' = IF Applied(reply) THEN nextID + 1 ELSE nextID
                 /\ reqs' = r.log
                 /\ res' = Result("ContinueTimeEntry", r.entry, r.err, FALSE,
                                  timer, duronly, now)
    /\ UNCHANGED session
    /\ UNCHANGED entryVars

(* The caller is done with the result of its last call.                    *)
CallerProceeds ==
    /\ res.op # "none"
    /\ ~res.panic
    /\ ~res.pending
    /\ res' = NoResult
    /\ reqs' = <<>>
    /\ UNCHANGED <<session, server, nextID>>
    /\ UNCHANGED entryVars

NextSession ==
    \/ CallerProceeds
    \/ UnstopDeletes
    \/ \E now \in NowVals : CallStartTimeEntry(now)
    \/ \E projectID \in ProjectIDs, billable \in BillableArgs, now \in NowVals :
          CallStartTimeEntryForProject(projectID, billable, now)
    \/ \E timer \in Held, add \in BOOLEAN :
          CallAddRemoveTag(timer.ID, "a", add)
    \/ \E id \in {3, 4} : CallGetProject(id)
    \/ \E timer \in Held, now \in NowVals : CallStopTimeEntry(timer, now)
    \/ \E timer \in Held : CallDeleteTimeEntry(timer)
    \/ \E timer \in Held, now \in NowVals : CallUnstopTimeEntry(timer, now)
    \/ \E timer \in Held, duronly \in BOOLEAN, now \in NowVals :
          CallContinueTimeEntry(timer, duronly, now)

SpecSession == InitSession /\ [][NextSession]_vars

(* SpecLogin: a caller logs in with NewSession, as often as it likes, and  *)
(* uses the session it got, also the one a failed login returned, for      *)
(* calls of every request method.                                          *)

Usernames == {"user"}

Passwords == {"pw"}

TheAccount == [APIToken |-> "token", ID |-> 9]

(* The answers to GET /me: the account, an object without api_token, or    *)
(* no JSON at all.                                                         *)
AccountReplies ==
    {[transport |-> FALSE, status |-> st, body |-> b] :
        st \in OkStatuses,
        b \in {[kind |-> "account", entry |-> ZeroWire,
                account |-> TheAccount],
               [kind |-> "account", entry |-> ZeroWire,
                account |-> [TheAccount EXCEPT !.APIToken = ""]],
               [kind |-> "garbage", entry |-> ZeroWire]}}

InitLogin ==
    /\ session = OpenSession("")
    /\ server = InitialEntries
    /\ nextID = 2
    /\ reqs = <<>>
    /\ res = NoResult
    /\ orig = ZeroEntry
    /\ cpy = ZeroEntry
    /\ copied = FALSE
    /\ times = <<>>
    /\ arrays = <<>>
    /\ last = NoCall

(* session, err := NewSession(username, password)                          *)
CallNewSession(username, password) ==
    /\ Idle
    /\ \E reply \in Failures \cup AccountReplies :
       \E r \in {NewSession(username, password, reply)} :
          /\ session' = r.session
          /\ reqs' = r.log
          /\ res' = [Result("NewSession", ZeroValue, r.err, FALSE, res.timer,
                            FALSE, ZeroTime)
                        EXCEPT !.login = [username |-> username,
                                          password |-> password]]
    /\ UNCHANGED <<server, nextID>>
    /\ UNCHANGED entryVars

CallGetAccount ==
    /\ Idle
    /\ \E reply \in Failures \cup AccountReplies :
       \E r \in {GetAccount(session, reply)} :
          /\ reqs' = r.log
          /\ res' = [Result("GetAccount", ZeroValue, r.err, FALSE, res.timer,
                            FALSE, ZeroTime)
                        EXCEPT !.account = r.account]
    /\ UNCHANGED <<session, server, nextID>>
    /\ UNCHANGED entryVars

CallUpdateTimeEntry(timer) ==
    /\ Idle
    /\ \E reply \in Failures \cup
                    (IF Holds(server, timer.ID) THEN EntryReplies(timer)
                     ELSE {}) :
       \E r \in {UpdateTimeEntry(session, timer, reply)} :
          /\ server' = IF Applied(reply)
                       THEN (server \ {ById(server, timer.ID)}) \cup {timer}
                       ELSE server
          /\ reqs' = r.log
          /\ res' = Result("UpdateTimeEntry", r.entry, r.err, FALSE, timer,
                           FALSE, ZeroTime)
    /\ UNCHANGED <<session, nextID>>
    /\ UNCHANGED entryVars

(* What time.Now() returns during the calls of SpecLogin.                  *)
LoginClock == {t \in NowVals : t.nsec = 0}

NextLogin ==
    \/ CallerProceeds
    \/ \E u \in Usernames, p \in Passwords : CallNewSession(u, p)
    \/ CallGetAccount
    \/ \E now \in LoginClock : CallStartTimeEntry(now)
    \/ \E projectID \in ProjectIDs, billable \in BillableArgs,
          now \in LoginClock :
          CallStartTimeEntryForProject(projectID, billable, now)
    \/ \E timer \in Held, add \in BOOLEAN :
          CallAddRemoveTag(timer.ID, "a", add)
    \/ \E id \in {3, 4} : CallGetProject(id)
    \/ \E timer \in Held, now \in LoginClock : CallStopTimeEntry(timer, now)
    \/ \E timer \in Held : CallUpdateTimeEntry(timer)
    \/ \E timer \in Held : CallDeleteTimeEntry(timer)

SpecLogin == InitLogin /\ [][NextLogin]_vars

----------------------------------------------------------------------------
(* SpecDecode: a caller decodes JSON time entries into the TimeEntry it    *)
(* holds, one after the other.                                             *)

(* The assignment of the value v to a TimeEntry variable: the decoder has  *)
(* made new variables for the times and a new array for the tags.          *)
Store(tms, arrs, v) ==
    LET t1 == IF v.Start = <<>> THEN tms ELSE Append(tms, v.Start[1])
        t2 == IF v.Stop = <<>> THEN t1 ELSE Append(t1, v.Stop[1])
        a1 == IF v.Tags = <<>> THEN arrs ELSE Append(arrs, v.Tags)
    IN  [times  |-> t2,
         arrays |-> a1,
         entry  |-> [v EXCEPT
                        !.Start = IF v.Start = <<>> THEN 0 ELSE Len(t1),
                        !.Stop  = IF v.Stop = <<>> THEN 0 ELSE Len(t2),
                        !.Tags  = IF v.Tags = <<>> THEN NilSlice
                                  ELSE [arr |-> Len(a1), len |-> Len(v.Tags),
                                        cap |-> Len(v.Tags)]]]

(* The dates and times written in the timestamp strings.                   *)
WallTimes == {[sec |-> 2 * OffsetEast, nsec |-> 0],
              [sec |-> 3 * OffsetEast + 1, nsec |-> HalfSecond]}

(* The start and stop of a JSON time entry: missing, empty, in one of the  *)
(* two formats (the offset east or west of UTC), or in neither.            *)
Stamps ==
    {[form |-> "absent", t |-> ZeroTime, off |-> 0], EmptyString}
    \cup {[form |-> f, t |-> w, off |-> 0] : f \in {"Z", "bad"},
                                             w \in WallTimes}
    \cup {[form |-> "offset", t |-> w, off |-> o] :
             w \in WallTimes, o \in {OffsetEast, 0 - OffsetEast}}

(* The documents handed to UnmarshalJSON: a time entry object, or          *)
(* something json.Unmarshal rejects.                                       *)
DecodeBodies ==
    {[kind |-> "entry",
      entry |-> [ZeroValue EXCEPT !.ID = 5, !.Wid = 7,
                                  !.Description = "decoded",
                                  !.Duration = 60, !.Tags = <<"b">>,
                                  !.Start = start, !.Stop = stop]] :
        start \in Stamps, stop \in Stamps}
    \cup {[kind |-> "garbage", entry |-> ZeroWire]}

InitDecode ==
    \E dur \in {0 - 1, 1}, start \in {<<>>, <<CopyTime>>},
       stop \in {<<>>, <<CopyTime>>} :
        InitHolding(dur, start, stop, <<"a", "b">>)

(* err := json.Unmarshal(b, &e) or e.UnmarshalJSON(b) on the entry held    *)
CallUnmarshalJSON(body) ==
    /\ Callable("orig")
    /\ \E u \in {UnmarshalJSON(View(times, arrays, orig), body)} :
       \E st \in {Store(times, arrays, u.entry)} :
       \E g \in {IF u.err = NoError
                 THEN Collect(st.times, st.arrays, st.entry, cpy)
                 ELSE Collect(times, arrays, orig, cpy)} :
          /\ times' = g.times
          /\ arrays' = g.arrays
          /\ orig' = g.orig
          /\ cpy' = g.cpy
          /\ last' = [Call("UnmarshalJSON", "orig", "", 0, ZeroTime, FALSE,
                           "", FALSE, FALSE)
                         EXCEPT !.body = body, !.decodeErr = u.err]
    /\ UNCHANGED copied
    /\ UNCHANGED sessionVars

NextDecode == \E body \in DecodeBodies : CallUnmarshalJSON(body)

SpecDecode == InitDecode /\ [][NextDecode]_vars

----------------------------------------------------------------------------
(* Properties of the Session operations.                                   *)

BadStatus(reply) == reply.status < 200 \/ reply.status >= 400

(* The request was answered with a good status and, where the operation    *)
(* decodes the answer, the answer decoded.                                 *)
Succeeded(x) == ~x.failed /\ ~x.decodeFailed

(* ContinueTimeEntry was called with duronly for a timer started on the    *)
(* current local day.                                                      *)
ContinuedToday ==
    /\ res.op = "ContinueTimeEntry"
    /\ ~res.panic
    /\ ~res.pending
    /\ res.duronly
    /\ res.timer.Start # <<>>
    /\ res.timer.Start[1].sec \div 86400 = res.now.sec \div 86400

(* The creation payload of a running copy of timer that keeps its start.   *)
RunningCopyOf(timer) ==
    [ZeroValue EXCEPT !.Duration = 0 - 1, !.Start = timer.Start,
                      !.Description = timer.Description, !.Wid = timer.Wid,
                      !.Pid = timer.Pid, !.Tid = timer.Tid,
                      !.Tags = timer.Tags, !.Billable = timer.Billable]

(* C2: UnstopTimeEntry(timer) first issues the create request for a new    *)
(* running entry (duration -1, timer's start and metadata), then the       *)
(* delete request for timer.  Create succeeded and delete failed: it       *)
(* returns the created entry and an error that begins with "old entry not  *)
(* deleted".  Both succeeded: it returns the created entry and nil.        *)
C2_UnstopCreatesThenDeletes ==
    (res.op = "UnstopTimeEntry" /\ ~res.pending) =>
        /\ Len(reqs) = 2
        /\ reqs[1].req.method = "POST"
        /\ reqs[1].req.url = [resource |-> "time_entries",
                              wid |-> res.timer.Wid, id |-> 0, suffix |-> ""]
        /\ reqs[1].req.body.entry = RunningCopyOf(res.timer)
        /\ reqs[2].req.method = "DELETE"
        /\ reqs[2].req.url = [resource |-> "time_entries",
                              wid |-> res.timer.Wid, id |-> res.timer.ID,
                              suffix |-> ""]
        /\ (Succeeded(reqs[1]) /\ reqs[2].failed)
              => /\ res.entry = [RunningCopyOf(res.timer)
                                    EXCEPT !.ID = res.beforeNext]
                 /\ res.err # <<>>
                 /\ Head(res.err) = "old entry not deleted: "
        /\ (Succeeded(reqs[1]) /\ ~reqs[2].failed)
              => /\ res.entry = [RunningCopyOf(res.timer)
                                    EXCEPT !.ID = res.beforeNext]
                 /\ res.err = <<>>

(* UnstopTimeEntry has created the new entry and failed to delete the old  *)
(* one, which the server still holds.                                      *)
C2_Witness ==
    /\ res.op = "UnstopTimeEntry"
    /\ ~res.pending
    /\ Succeeded(reqs[1])
    /\ reqs[2].failed
    /\ res.timer.ID \in IDs(server)
    /\ res.entry.ID \in IDs(server)
    /\ res.entry.ID # res.timer.ID

(* C3: if any request of a Session operation fails (transport error or a   *)
(* status outside [200, 400)) or any decoding of a response fails, the     *)
(* operation returns a non-nil error.                                      *)
C3_NoFailureSwallowed ==
    (res.op # "none" /\ ~res.panic /\ ~res.pending
        /\ \E i \in 1..Len(reqs) : reqs[i].failed \/ reqs[i].decodeFailed)
    => res.err # <<>>

(* C4: ContinueTimeEntry with duronly for a timer started today re-opens   *)
(* the existing entry: when it succeeds, the entry it returns has timer's  *)
(* id and the server holds no entry under a new id.                        *)
C4_ContinueKeepsTheID ==
    (ContinuedToday /\ res.err = <<>>
        /\ \A i \in 1..Len(reqs) : Succeeded(reqs[i]))
    => /\ res.entry.ID = res.timer.ID
       /\ IDs(server) \subseteq res.before

(* C4 as amended: ContinueTimeEntry with duronly for a timer started today *)
(* does what UnstopTimeEntry does: a create request for a running copy of  *)
(* timer that keeps its start, then a delete request for timer.  When both *)
(* succeed it returns the created entry, which is running and has a new    *)
(* id, and the server holds the new id and no longer timer's.              *)
C4_ContinueReplacesTheEntry ==
    ContinuedToday =>
        /\ Len(reqs) = 2
        /\ reqs[1].req.method = "POST"
        /\ reqs[1].req.body.entry = RunningCopyOf(res.timer)
        /\ reqs[2].req.method = "DELETE"
        /\ reqs[2].req.url.id = res.timer.ID
        /\ (Succeeded(reqs[1]) /\ Succeeded(reqs[2]))
              => /\ res.err = <<>>
                 /\ res.entry.Duration < 0
                 /\ res.entry.Start = res.timer.Start
                 /\ res.entry.ID # res.timer.ID
                 /\ res.entry.ID \notin res.before
                 /\ res.entry.ID \in IDs(server)
                 /\ res.timer.ID \notin IDs(server)

(* ContinueTimeEntry with duronly has replaced an entry started today that *)
(* the server held.                                                        *)
C4_Witness ==
    /\ ContinuedToday
    /\ res.timer.ID \in res.before
    /\ Len(reqs) = 2
    /\ Succeeded(reqs[1])
    /\ Succeeded(reqs[2])
    /\ res.entry.ID \in IDs(server)

(* C10: the transport returns the body with an error carrying the status   *)
(* line exactly when the status is below 200 or at least 400, and the body *)
(* with a nil error otherwise.  An operation that returns a typed record,  *)
(* once it has returned, returns for every request of its that got such a  *)
(* status that error and the zero record, and no operation decodes the     *)
(* body of a failed request.                                               *)
C10_StatusClassification ==
    /\ \A i \in 1..Len(reqs) :
          /\ ~reqs[i].reply.transport =>
                /\ reqs[i].content = <<reqs[i].reply.body>>
                /\ IF reqs[i].reply.status < 200 \/ reqs[i].reply.status >= 400
                   THEN reqs[i].err = <<StatusLine(reqs[i].reply.status)>>
                   ELSE reqs[i].err = <<>>
          /\ reqs[i].err # <<>> => ~reqs[i].decoded
    /\ (res.op \in {"StartTimeEntry", "StartTimeEntryForProject",
                    "StopTimeEntry", "AddRemoveTag", "UnstopTimeEntry",
                    "ContinueTimeEntry", "GetProject"}
          /\ ~res.pending)
       => \A i \in 1..Len(reqs) :
             (~reqs[i].reply.transport /\ BadStatus(reqs[i].reply))
                => /\ res.err = <<StatusLine(reqs[i].reply.status)>>
                   /\ res.entry = ZeroValue
                   /\ res.project = ZeroProject

----------------------------------------------------------------------------
(* Properties of the TimeEntry helpers.                                    *)

OrigView == View(times, arrays, orig)

CpyView == View(times, arrays, cpy)

Count(tags, tag) == Cardinality({i \in 1..Len(tags) : tags[i] = tag})

Contains(tags, tag) == Count(tags, tag) > 0

(* tags without its first occurrence of tag *)
WithoutFirst(tags, tag) ==
    LET i == CHOOSE k \in 1..Len(tags) :
                tags[k] = tag /\ \A j \in 1..(k - 1) : tags[j] # tag
    IN  SubSeq(tags, 1, i - 1) \o SubSeq(tags, i + 1, Len(tags))

(* C1: IsRunning() returns true if and only if Duration < 0, whatever the  *)
(* Stop and Start fields are.                                              *)
C1_IsRunningIffNegativeDuration ==
    last.op = "IsRunning" => (last.ret <=> last.preView.Duration < 0)

(* IsRunning() has answered false for an entry that has no Stop.           *)
C1_Witness ==
    /\ last.op = "IsRunning"
    /\ ~last.ret
    /\ last.preView.Stop = <<>>
    /\ last.preView.Duration >= 0

(* C5: SetDuration and SetStopTime on a running entry (Duration < 0)       *)
(* return the precondition error and leave every field of the entry as it  *)
(* was, for every argument.                                                *)
C5_RunningEntryRejected ==
    (last.op \in {"SetDuration", "SetStopTime"} /\ last.preView.Duration < 0)
        => /\ last.err = MustBeStopped
           /\ ~last.panic
           /\ OrigView = last.preView

(* SetStopTime has been refused on a running entry that has a Start, with  *)
(* a stop time different from the entry's Stop.                            *)
C5_Witness ==
    /\ last.op = "SetStopTime"
    /\ last.preView.Duration < 0
    /\ last.preView.Start # <<>>
    /\ last.preView.Stop # <<last.t>>
    /\ last.err # ""

(* C6: SetStartTime(start, updateEnd) always sets Start to start.  On a    *)
(* stopped entry with updateEnd it sets Stop to start plus Duration        *)
(* seconds and keeps Duration; on a stopped entry without updateEnd it     *)
(* sets Duration to the whole seconds of the time from start to Stop and   *)
(* keeps Stop; on a running entry it keeps Stop and Duration.              *)
C6_SetStartTime ==
    last.op = "SetStartTime" =>
        LET p == last.preView
            v == OrigView
        IN  /\ v.Start = <<last.t>>
            /\ ~last.panic
            /\ (p.Duration >= 0 /\ last.updateEnd)
                  => /\ v.Stop = <<AddSeconds(last.t, p.Duration)>>
                     /\ v.Duration = p.Duration
            /\ (p.Duration >= 0 /\ ~last.updateEnd)
                  => /\ v.Stop = p.Stop
                     /\ p.Stop # <<>>
                     /\ v.Duration = SubSeconds(p.Stop[1], last.t)
            /\ p.Duration < 0
                  => /\ v.Stop = p.Stop
                     /\ v.Duration = p.Duration

(* C7: after c = e.Copy(), a mutating helper called on c leaves e as it    *)
(* was and one called on e leaves c as it was, and the copy returned by    *)
(* Copy() shares neither its tag storage nor its timestamp variables with  *)
(* the original.                                                           *)
C7_CopyIsIndependent ==
    /\ (copied /\ last.op \in {"AddTag", "RemoveTag", "SetStartTime",
                               "SetStopTime", "SetDuration"})
          => View(times, arrays, Other(last.who)) = last.preOther
    /\ last.op = "Copy"
          => /\ CpyView = OrigView
             /\ cpy.Tags.arr # orig.Tags.arr
             /\ orig.Start # 0 => cpy.Start # orig.Start
             /\ orig.Stop # 0 => cpy.Stop # orig.Stop

(* C8: RemoveTag(tag) leaves the tags unchanged when tag is absent, and    *)
(* otherwise removes the first occurrence only: one tag fewer, the others  *)
(* in their order.                                                         *)
C8_RemoveTag ==
    last.op = "RemoveTag" =>
        LET p == last.preView.Tags
            v == OrigView.Tags
        IN  IF Contains(p, last.tag)
            THEN Len(v) = Len(p) - 1 /\ v = WithoutFirst(p, last.tag)
            ELSE v = p

(* RemoveTag has removed a tag that occurred twice, around another tag.    *)
C8_Witness ==
    /\ last.op = "RemoveTag"
    /\ Count(last.preView.Tags, last.tag) = 2
    /\ Len(last.preView.Tags) = 3
    /\ last.preView.Tags[2] # last.tag

(* C9: AddTag(tag) leaves the tags unchanged when tag is present, so a     *)
(* second AddTag(tag) changes nothing; when tag is absent it appends tag   *)
(* at the end; HasTag(tag) is true afterwards.                             *)
C9_AddTagIdempotent ==
    last.op = "AddTag" =>
        LET p == last.preView.Tags
            v == OrigView.Tags
            again == AddTag(arrays, orig, last.tag)
        IN  /\ IF Contains(p, last.tag) THEN v = p
               ELSE v = Append(p, last.tag)
            /\ HasTag(arrays, orig, last.tag)
            /\ Elems(again.arrays, again.entry.Tags) = v

(* AddTag has been called with a tag the entry already had.                *)
C9_Witness ==
    /\ last.op = "AddTag"
    /\ Contains(last.preView.Tags, last.tag)
    /\ Len(last.preView.Tags) >= 2

(* C13: an entry that was stopped and consistent, after any sequence of    *)
(* successful SetDuration, SetStopTime and SetStartTime calls, still has   *)
(* Stop equal to Start plus Duration seconds.                              *)
C13_StopFollowsDuration ==
    last.sinceConsistent =>
        /\ OrigView.Start # <<>>
        /\ OrigView.Stop # <<>>
        /\ OrigView.Stop[1] = AddSeconds(OrigView.Start[1], OrigView.Duration)

(* C15: a successful SetDuration, SetStopTime or SetStartTime on a stopped *)
(* entry with Start and Stop set leaves the entry stopped.                 *)
C15_StoppedStaysStopped ==
    (/\ last.op \in TimeSetters
     /\ last.err = ""
     /\ ~last.panic
     /\ last.preView.Duration >= 0
     /\ last.preView.Start # <<>>
     /\ last.preView.Stop # <<>>)
        => ~IsRunning(orig)

(* C14: UnstopTimeEntry never loses the entry.  Were the delete request   *)
(* for the original entry issued only after the create request for the     *)
(* replacement has succeeded, then in every outcome the server would hold  *)
(* the original entry or the replacement when the operation returns.       *)
C14_UnstopNeverLosesTheEntry ==
    (/\ res.op = "UnstopTimeEntry"
     /\ ~res.pending
     /\ res.timer.ID \in res.before) =>
        \/ res.timer.ID \in IDs(server)
        \/ res.beforeNext \in IDs(server)

(* The pair a request of the session sess must authenticate with.          *)
AuthPair(sess) ==
    IF sess.APIToken # "" THEN <<sess.APIToken, "api_token">>
    ELSE <<sess.username, sess.password>>

(* The login exchange went wrong: no answer, a bad status, or an answer    *)
(* that is not an account.                                                 *)
LoginFailed(reply) ==
    reply.transport \/ BadStatus(reply) \/ reply.body.kind # "account"

(* C11: credentials change only inside the login exchange.  A successful   *)
(* NewSession(username, password) returns a session whose APIToken is the  *)
(* token of the fetched account and whose username and password are empty; *)
(* a failed NewSession returns a non-nil error; no other Session operation *)
(* changes APIToken, username or password.  Every request authenticates    *)
(* with one pair: (APIToken, "api_token") when APIToken is non-empty,      *)
(* otherwise (username, password).                                         *)
C11_CredentialsChangeOnlyAtLogin ==
    /\ res.op = "NewSession" =>
          /\ Len(reqs) = 1
          /\ LoginFailed(reqs[1].reply) => res.err # <<>>
          /\ ~LoginFailed(reqs[1].reply) =>
                /\ res.err = <<>>
                /\ session = [APIToken |-> reqs[1].reply.body.account.APIToken,
                              username |-> "", password |-> ""]
          /\ <<reqs[1].req.user, reqs[1].req.pass>> =
                <<res.login.username, res.login.password>>
    /\ res.op \notin {"none", "NewSession"} =>
          /\ session = res.sessionBefore
          /\ \A i \in 1..Len(reqs) :
                <<reqs[i].req.user, reqs[i].req.pass>> =
                    AuthPair(res.sessionBefore)

(* A login has succeeded after a failed one: the session that held the     *)
(* username and the password now holds the account's token alone.          *)
C11_Witness ==
    /\ res.op = "NewSession"
    /\ res.err = <<>>
    /\ res.sessionBefore.username = "user"
    /\ res.sessionBefore.password = "pw"
    /\ session.APIToken = "token"
    /\ session.username = ""

(* What decoding makes of a well-formed start or stop: nothing when it is  *)
(* missing or empty, the written time as UTC in the Z format, the written  *)
(* time less its offset in the offset format.                              *)
Decoded(stamp) ==
    IF stamp.form \in {"absent", "empty"} THEN <<>>
    ELSE IF stamp.form = "Z" THEN <<stamp.t>>
    ELSE <<[sec |-> stamp.t.sec - stamp.off, nsec |-> stamp.t.nsec]>>

(* C12: decoding a TimeEntry tries the Z format first and the offset       *)
(* format second for start and for stop.  A non-empty start or stop in     *)
(* neither format makes decoding fail with an error (of the format tried   *)
(* last) and leaves the destination unchanged; a missing or empty start or *)
(* stop decodes to no value.                                               *)
C12_DecodeTimestamps ==
    (last.op = "UnmarshalJSON" /\ last.body.kind = "entry") =>
        LET start == last.body.entry.Start
            stop  == last.body.entry.Stop
        IN  IF start.form = "bad" \/ stop.form = "bad"
            THEN /\ last.decodeErr = <<ParseError, OffsetLayout>>
                 /\ OrigView = last.preView
            ELSE /\ last.decodeErr = <<>>
                 /\ OrigView.Start = Decoded(start)
                 /\ OrigView.Stop = Decoded(stop)
                 /\ OrigView.ID = last.body.entry.ID
                 /\ OrigView.Duration = last.body.entry.Duration

(* Decoding has failed on the stop after the start was read in the offset  *)
(* format, and the entry still has the start it was given before.          *)
C12_Witness ==
    /\ last.op = "UnmarshalJSON"
    /\ last.body.kind = "entry"
    /\ last.body.entry.Start.form = "offset"
    /\ last.body.entry.Stop.form = "bad"
    /\ last.preView.Start = <<CopyTime>>
    /\ OrigView = last.preView
    /\ last.decodeErr # <<>>

============================================================================
